---- MODULE Spec2Model ----
(***************************************************************************)
(* Real-time animation core of the 3D contact page:                        *)
(*   - Frames (camera state machine: Idle / ZoomIn / ZoomingOut),          *)
(*   - MouseCameraController (mouse parallax),                             *)
(*   - useCachedElements (content registry of "active" markers),           *)
(*   - useFrameRate (rate-limited scheduler).                              *)
(*                                                                         *)
(* Numbers are fixed-point integers.  Time is counted in tenths of a time  *)
(* unit for the camera (the tween lasts 12, the delay 5), field of view in *)
(* hundredths of a degree, positions on a one-dimensional grid of 0.25     *)
(* scene units (the projection of the camera path on one axis), and an     *)
(* orientation is the signed direction from eye to target on that axis.    *)
(***************************************************************************)
EXTENDS Integers, Sequences, FiniteSets, TLC

VARIABLES
    \* ---- Frames: React state and refs
    selectedFrameId,      \* useState(null)
    isAnimatingOut,       \* useState(false)
    clicked,              \* clicked.current: the resolved scene object
    targetFov,            \* targetFovRef.current
    finalZoomInPosition,  \* finalZoomInPosition.current
    frameCenterWorld,     \* frameCenterWorld.current
    zoomInTargetQ,        \* zoomInTargetQ.current
    zoomOutTargetQ,       \* zoomOutTargetQ.current
    wheelListener,        \* the registered handleWheel closure, or NoListener
    isZoomed,             \* what setIsZoomed last reported to the parent
    \* ---- the shared camera
    camera,               \* [position (x), positionY (y and z), quaternion, fov]
    \* ---- gsap
    tweens,               \* running gsap.to(camera.position) tweens
    delayedCalls,         \* running gsap.delayedCall timers
    \* ---- MouseCameraController
    mouseX,               \* mouseX.current, as a numerator over InnerWidth
    basePosition,         \* basePositionRef.current.x
    basePositionY,        \* basePositionRef.current.y (and .z)
    \* ---- useCachedElements
    active,               \* indices of the elements carrying class "active"
    \* ---- observers (history of the last step)
    lastOp,               \* the handler that ran last
    writers,              \* who wrote camera position/orientation in the last frame
    framesWrote,          \* camera fields the Frames useFrame wrote in the last frame
    framesSaw,            \* machine state the Frames useFrame evaluated in the last frame
    defaultPrevented,     \* did the last wheel event have its default suppressed
    clearCalls,           \* completion calls of clearActiveClasses since the last trigger
    zoomOutClock,         \* time since the last zoom-out trigger, or NoClock
    linkResult,           \* what setActiveBySlug returned in the last click, or NoResult
    \* ---- component lifetimes
    mounted,              \* is Frames mounted
    attached,             \* is MouseCameraController mounted
    lifetimes,            \* how often MouseCameraController has been mounted
    attachPosition,       \* the camera position when it was last mounted
    shadow,               \* a first-ever controller mounted at attachPosition
                          \* that is given the same events: [position, mouseX]
    \* ---- useFrameRate: the render clock and one record per subscription
    elapsedTime,          \* state.clock.elapsedTime
    frameRef,             \* frameRef.current of each subscription
    lastTimeRef,          \* lastTimeRef.current of each subscription
    fps,                  \* the fps argument of each subscription
    enabled,              \* the enabled argument of each subscription
    \* ---- observers of the scheduler
    renderDelta,          \* the fixed delta of a steady run, or 0
    tickDelta,            \* the delta of the last render tick
    firedNow,             \* did the subscription's callback run in the last tick
    passedDelta,          \* the delta its callback was called with in the last tick
    fires,                \* how often its callback has run
    solo,                 \* each subscription as it would be were it the only one
    deltaSum,             \* the sum of the deltas its callback has been called with
    offTime,              \* the time it has spent disabled since its last fire
    \* ---- useOptimizedParticles
    count,                \* the count argument
    positions,            \* positions.current (Float32Array)
    velocities,           \* velocities.current (Float32Array)
    \* ---- observer of the panel's useFrameRate callback
    panelRead             \* the particlePositions it read in the last tick, or <<>>

framesVars == <<selectedFrameId, isAnimatingOut, clicked, targetFov,
                finalZoomInPosition, frameCenterWorld, zoomInTargetQ,
                zoomOutTargetQ, wheelListener, isZoomed>>
gsapVars == <<tweens, delayedCalls>>
parallaxVars == <<mouseX, basePosition, basePositionY>>
observerVars == <<lastOp, writers, framesWrote, framesSaw, defaultPrevented,
                  clearCalls, zoomOutClock, linkResult>>
lifeVars == <<mounted, attached, lifetimes, attachPosition, shadow>>
cameraSideVars == <<framesVars, camera, gsapVars, parallaxVars, active, observerVars,
                    lifeVars>>

schedVars == <<elapsedTime, frameRef, lastTimeRef, fps, enabled>>
schedObserverVars == <<renderDelta, tickDelta, firedNow, passedDelta, fires, solo,
                       deltaSum, offTime>>
particleVars == <<count, positions, velocities, panelRead>>
schedSideVars == <<schedVars, schedObserverVars, particleVars>>

vars == <<cameraSideVars, schedSideVars>>

-----------------------------------------------------------------------------
(* Values *)

Null == "null"
NoObject == "undefined"
NoListener == [registered |-> FALSE, isAnimatingOut |-> FALSE, selectedFrameId |-> "null"]
NoClock == -1
NoResult == 0 - 2

\* The frames mounted in the group, and the names a click can carry.
\* "fx" is a name getObjectByName does not find under the group.
FrameIds == {"f1", "f2"}
UnknownIds == {"fx"}
ObjectNames == FrameIds \cup UnknownIds

InitialFov == 6000
ZoomFov == 7000
FovEps == 1
TweenDuration == 12
DelayDuration == 5
MaxDelta == 2
Deltas == 1..MaxDelta

CameraStart == 0
Section2Position == 4
Section2LookAtTarget == 1
HeadingPosition == 0
MaxHorizontalOffset == 2
LerpDivisor == 20
HalfWidth == 1
InnerWidth == 2 * HalfWidth
GoldenEye == 5
GoldenCenter == 3

Abs(x) == IF x < 0 THEN -x ELSE x
Sign(x) == IF x < 0 THEN -1 ELSE IF x > 0 THEN 1 ELSE 0


-----------------------------------------------------------------------------
(* Library arithmetic on the grid *)

\* maath easing.damp / damp3 / dampQ with smoothTime 0.4..0.5: over one time
\* step the remaining distance to the target shrinks to 7/10 (rounded
\* towards the target, so the value arrives).
Shrink(r) == (r * 7) \div 10

DampStep(cur, target) ==
    IF target >= cur THEN target - Shrink(target - cur)
                     ELSE target + Shrink(cur - target)

RECURSIVE Damp(_, _, _)
Damp(cur, target, dt) ==
    IF dt = 0 THEN cur ELSE Damp(DampStep(cur, target), target, dt - 1)

\* The field of view is kept on the ladder of distances a full swing between
\* InitialFov and ZoomFov passes through: a damping step that starts between
\* two rungs (after the target flipped mid-swing) lands on the next rung
\* farther from the target.
RECURSIVE LadderFrom(_)
LadderFrom(r) == IF r = 0 THEN {0} ELSE {r} \cup LadderFrom(Shrink(r))

FovLadder == LadderFrom(ZoomFov - InitialFov)

SnapUp(r) == CHOOSE l \in FovLadder : l >= r /\ \A k \in FovLadder : k >= r => l <= k

DampFovStep(cur, target) ==
    IF target >= cur THEN target - SnapUp(Shrink(target - cur))
                     ELSE target + SnapUp(Shrink(cur - target))

RECURSIVE DampFov(_, _, _)
DampFov(cur, target, dt) ==
    IF dt = 0 THEN cur ELSE DampFov(DampFovStep(cur, target), target, dt - 1)

\* THREE.Vector3.lerp(target, LERP_SPEED) with LERP_SPEED = 1/LerpDivisor.
LerpSnaps(cur, target) == target
Lerp(cur, target) ==
    IF target >= cur THEN cur + ((target - cur + LerpDivisor - 1) \div LerpDivisor)
                     ELSE cur - ((cur - target + LerpDivisor - 1) \div LerpDivisor)

\* gsap ease "power1.inOut" at elapsed e of TweenDuration, from start to end.
TweenValue(start, end, e) ==
    LET D == TweenDuration
        num == IF 2 * e < D THEN 2 * e * e ELSE D * D - 2 * (D - e) * (D - e)
    IN  start + (((end - start) * num) \div (D * D))

-----------------------------------------------------------------------------
(* Scene *)

\* ref.current.getObjectByName(name)
GetObjectByName(name) == IF name \in FrameIds THEN name ELSE NoObject

FrameOrigin(f) == IF f = "f1" THEN -4 ELSE 4
FrameNormal(f) == IF f = "f1" THEN 1 ELSE -1

\* clicked.current.parent.localToWorld(v.set(0, GOLDENRATIO / 2, z))
LocalToWorld(f, z) == FrameOrigin(f) + FrameNormal(f) * z

calculateLookAtQuaternion(eye, target) == target - eye

-----------------------------------------------------------------------------
(* useCachedElements: the content registry *)

\* elementsRef.current: the slug each cached element links to.
\* The second element links to a project that has no frame; frame "f2" has
\* no element.
Elements == <<"f1", "other">>

\* props.slug of the Frame whose mesh is named n
SlugOf(n) == n

findElementBySlug(slug) ==
    LET hits == {i \in 1..Len(Elements) : Elements[i] = slug}
    IN  IF hits = {} THEN 0
        ELSE CHOOSE i \in hits : \A j \in hits : i <= j

clearActiveClasses(act) == {}

\* the marker set after setActiveBySlug(slug)
setActiveBySlugClearsOnMiss(act, slug) ==
    LET i == findElementBySlug(slug)
    IN  IF i # 0 THEN clearActiveClasses(act) \cup {i} ELSE clearActiveClasses(act)
setActiveBySlugKeepsOthers(act, slug) ==
    LET i == findElementBySlug(slug)
    IN  IF i # 0 THEN act \cup {i} ELSE act
setActiveBySlug(act, slug) ==
    LET i == findElementBySlug(slug)
    IN  IF i # 0 THEN clearActiveClasses(act) \cup {i} ELSE act

\* the value setActiveBySlug(slug) returns (zero-based index, or -1)
setActiveBySlugResult(slug) ==
    LET i == findElementBySlug(slug)
    IN  IF i # 0 THEN i - 1 ELSE -1

-----------------------------------------------------------------------------
(* Frames: the camera state machine *)

Idle == selectedFrameId = Null /\ ~isAnimatingOut
ZoomingOut == isAnimatingOut
ZoomIn(f) == selectedFrameId = f /\ clicked = f /\ ~isAnimatingOut

\* The values one render of Frames closes over.
Machine ==
    [isAnimatingOut |-> isAnimatingOut, selectedFrameId |-> selectedFrameId,
     clicked |-> clicked, targetFov |-> targetFov,
     finalZoomInPosition |-> finalZoomInPosition,
     zoomInTargetQ |-> zoomInTargetQ, zoomOutTargetQ |-> zoomOutTargetQ]

\* triggerZoomOut: the condition under which it acts
triggerZoomOutGuardNoSelection(anim, sel) == ~anim
triggerZoomOutGuardNoAnimating(anim, sel) == sel # Null
triggerZoomOutGuard(anim, sel) == ~anim /\ sel # Null

\* group onClick: is the clicked object the one zoomed on?
isClickedObjectAny(cur, name) == cur # NoObject
isClickedObject(cur, name) == cur # NoObject /\ cur = name

\* handleWheel: if (event.deltaY < 0)
wheelIsUpInverted(deltaY) == deltaY > 0
wheelIsUpOrFlat(deltaY) == deltaY <= 0
wheelIsUp(deltaY) == deltaY < 0

\* group onClick: may a click on another object select it?
onClickMaySelectAlways(anim) == TRUE
onClickMaySelect(anim) == ~anim

\* useFrame: does the field of view still have to move?
fovChangedAlways(fov, target) == fov # target
fovChanged(fov, target) == Abs(fov - target) > FovEps

\* useFrame: else if (selectedFrameId && clicked.current)
zoomInActiveAlways(sel, obj) == TRUE
zoomInActive(sel, obj) == sel # Null /\ obj # NoObject

\* Camera fields the Frames useFrame writes when it evaluates machine m.
FramesWrites(cam, m) ==
    (IF fovChanged(cam.fov, m.targetFov) THEN {"fov"} ELSE {})
    \cup (IF m.isAnimatingOut THEN {"quaternion"}
          ELSE IF zoomInActive(m.selectedFrameId, m.clicked)
               THEN {"position", "quaternion"}
               ELSE {})

\* Frames useFrame((state, dt) => ...)
FramesUseFrame(cam, m, dt) ==
    LET w == FramesWrites(cam, m)
    IN  [fov |-> IF "fov" \in w THEN DampFov(cam.fov, m.targetFov, dt) ELSE cam.fov,
         position |-> IF "position" \in w
                      THEN Damp(cam.position, m.finalZoomInPosition, dt)
                      ELSE cam.position,
         positionY |-> IF "position" \in w
                       THEN Damp(cam.positionY, m.finalZoomInPosition, dt)
                       ELSE cam.positionY,
         quaternion |-> IF "quaternion" \in w
                        THEN Damp(cam.quaternion,
                                  IF m.isAnimatingOut THEN m.zoomOutTargetQ
                                                      ELSE m.zoomInTargetQ, dt)
                        ELSE cam.quaternion]

\* MouseCameraController useFrame(() => ...)
ParallaxTargetX(base, mx) == base + ((mx * MaxHorizontalOffset) \div InnerWidth)

ParallaxUseFrame(cam, base, baseY, mx) ==
    LET p == Lerp(cam.position, ParallaxTargetX(base, mx))
    IN  [cam EXCEPT !.position = p,
                    !.positionY = Lerp(cam.positionY, baseY),
                    !.quaternion = calculateLookAtQuaternion(p, HeadingPosition)]

\* handleMouseMove: (clientX / innerWidth) * 2 - 1, as a numerator over InnerWidth
NormalizedXUnshifted(clientX) == 2 * clientX
NormalizedX(clientX) == 2 * clientX - InnerWidth

-----------------------------------------------------------------------------
(* gsap: the zoom-out tween and the delayed completion *)

NewTween == [started |-> FALSE, start |-> 0, startY |-> 0, elapsed |-> 0]

Min(a, b) == IF a <= b THEN a ELSE b

\* One ticker pass over the running gsap.to(camera.position, {duration: 1.2, ...})
\* tweens: each reads its start value on its first render, writes the eased
\* position, and ends (onComplete) once its duration has elapsed.
RECURSIVE TweensRender(_, _, _, _)
TweensRender(pos, posY, tws, dt) ==
    IF tws = <<>>
    THEN [position |-> pos, positionY |-> posY, running |-> <<>>, completed |-> 0]
    ELSE LET t == Head(tws)
             start == IF t.started THEN t.start ELSE pos
             startY == IF t.started THEN t.startY ELSE posY
             e == Min(t.elapsed + dt, TweenDuration)
             p == TweenValue(start, Section2Position, e)
             pY == TweenValue(startY, Section2Position, e)
             rest == TweensRender(p, pY, Tail(tws), dt)
             ended == e >= TweenDuration
         IN  [position |-> rest.position,
              positionY |-> rest.positionY,
              running |-> (IF ended THEN <<>>
                           ELSE <<[started |-> TRUE, start |-> start,
                                   startY |-> startY, elapsed |-> e]>>)
                          \o rest.running,
              completed |-> rest.completed + (IF ended THEN 1 ELSE 0)]

\* The delay the tween's onComplete asks gsap.delayedCall for
onCompleteDelayDoubled == 2 * DelayDuration
onCompleteDelayHalved == DelayDuration \div 2
onCompleteDelay == DelayDuration

\* One gsap ticker tick of dt: the delayed calls that were already running
\* count down and fire; the tweens render, and each tween that ends starts a
\* delayed call (which cannot fire in the tick that creates it).
GsapTick(pos, posY, tws, dcs, dt) ==
    LET left == [i \in 1..Len(dcs) |-> dcs[i] - dt]
        fired == {i \in 1..Len(dcs) : left[i] <= 0}
        keep == SelectSeq(left, LAMBDA d : d > 0)
        tw == TweensRender(pos, posY, tws, dt)
    IN  [position |-> tw.position,
         positionY |-> tw.positionY,
         tweens |-> tw.running,
         delayedCalls |-> keep \o [i \in 1..tw.completed |-> onCompleteDelay],
         completions |-> Cardinality(fired),
         rendered |-> tws # <<>>]

-----------------------------------------------------------------------------
(* React: one render of Frames and the effects it runs *)

\* The zoom-out effect, useEffect(() => { if (isAnimatingOut) {...} },
\* [isAnimatingOut, ...]): does it start a tween after a render in which
\* isAnimatingOut is anim2 and has changed or not?
zoomOutEffectRunsOnAnyChange(animChanged, anim2) == animChanged
zoomOutEffectRuns(animChanged, anim2) == animChanged /\ anim2

\* The zoom-in effect: if (clicked.current) { ...; targetFovRef.current = 70 }
zoomInEffectFovUnguarded(resolved, fov) == ZoomFov
zoomInEffectFov(resolved, fov) == IF resolved THEN ZoomFov ELSE fov

\* The zoom-in effect: if (clicked.current) { ...; setIsZoomed(true); ... }
zoomInEffectZoomedUnguarded(resolved, zoomed) == TRUE
zoomInEffectZoomed(resolved, zoomed) == IF resolved THEN TRUE ELSE zoomed

\* The state and refs of Frames after the state updates (sel2, anim2) of one
\* batch have been rendered and the effects whose dependencies changed have
\* run, in the order they are declared: zoom-in effect [selectedFrameId],
\* zoom-out effect [isAnimatingOut], wheel effect [selectedFrameId].
\* fov1, zoomed1, tw1: targetFovRef, isZoomed and the tweens as the batch left them.
Commit(sel2, anim2, fov1, zoomed1, tw1) ==
    LET selChanged == sel2 # selectedFrameId
        animChanged == anim2 # isAnimatingOut
        obj == IF selChanged THEN GetObjectByName(sel2) ELSE clicked
        zin == selChanged /\ obj # NoObject
        eye == LocalToWorld(obj, GoldenEye)
        center == LocalToWorld(obj, GoldenCenter)
        zout == zoomOutEffectRuns(animChanged, anim2)
    IN  [selectedFrameId |-> sel2,
         isAnimatingOut |-> anim2,
         clicked |-> obj,
         finalZoomInPosition |-> IF zin THEN eye ELSE finalZoomInPosition,
         frameCenterWorld |-> IF zin THEN center ELSE frameCenterWorld,
         zoomInTargetQ |-> IF zin THEN calculateLookAtQuaternion(eye, center)
                                  ELSE zoomInTargetQ,
         isZoomed |-> IF selChanged THEN zoomInEffectZoomed(obj # NoObject, zoomed1)
                                     ELSE zoomed1,
         targetFov |-> IF selChanged THEN zoomInEffectFov(obj # NoObject, fov1)
                                      ELSE fov1,
         zoomOutTargetQ |-> IF zout
                            THEN calculateLookAtQuaternion(Section2Position,
                                                           Section2LookAtTarget)
                            ELSE zoomOutTargetQ,
         tweens |-> IF zout THEN Append(tw1, NewTween) ELSE tw1,
         wheelListener |-> IF selChanged
                           THEN (IF sel2 # Null
                                 THEN [registered |-> TRUE, isAnimatingOut |-> anim2,
                                       selectedFrameId |-> sel2]
                                 ELSE NoListener)
                           ELSE wheelListener]

Rendered(r) ==
    /\ selectedFrameId' = r.selectedFrameId
    /\ isAnimatingOut' = r.isAnimatingOut
    /\ clicked' = r.clicked
    /\ finalZoomInPosition' = r.finalZoomInPosition
    /\ frameCenterWorld' = r.frameCenterWorld
    /\ zoomInTargetQ' = r.zoomInTargetQ
    /\ isZoomed' = r.isZoomed
    /\ targetFov' = r.targetFov
    /\ zoomOutTargetQ' = r.zoomOutTargetQ
    /\ tweens' = r.tweens
    /\ wheelListener' = r.wheelListener

\* The closure the Frames useFrame of render r evaluates.
MachineOf(r) ==
    [isAnimatingOut |-> r.isAnimatingOut, selectedFrameId |-> r.selectedFrameId,
     clicked |-> r.clicked, targetFov |-> r.targetFov,
     finalZoomInPosition |-> r.finalZoomInPosition,
     zoomInTargetQ |-> r.zoomInTargetQ, zoomOutTargetQ |-> r.zoomOutTargetQ]

-----------------------------------------------------------------------------
(* Initial state: Canvas camera, both components mounted, nothing selected *)

NoFrameSeen == [isAnimatingOut |-> FALSE, selectedFrameId |-> Null, clicked |-> NoObject]

InitCamera ==
    /\ selectedFrameId = Null
    /\ isAnimatingOut = FALSE
    /\ clicked = NoObject
    /\ targetFov = InitialFov
    /\ finalZoomInPosition = 0
    /\ frameCenterWorld = 0
    /\ zoomInTargetQ = 0
    /\ zoomOutTargetQ = 0
    /\ wheelListener = NoListener
    /\ isZoomed = FALSE
    /\ camera = [position |-> CameraStart, positionY |-> CameraStart,
                 quaternion |-> 0, fov |-> InitialFov]
    /\ tweens = <<>>
    /\ delayedCalls = <<>>
    /\ mouseX = 0
    /\ basePosition = CameraStart
    /\ basePositionY = CameraStart
    /\ active = {}
    /\ lastOp = [op |-> "mount", arg |-> Null, from |-> Null]
    /\ writers = {}
    /\ framesWrote = {}
    /\ framesSaw = NoFrameSeen
    /\ defaultPrevented = FALSE
    /\ clearCalls = 0
    /\ zoomOutClock = NoClock
    /\ linkResult = NoResult
    /\ mounted = TRUE
    /\ attached = TRUE
    /\ lifetimes = 1
    /\ attachPosition = CameraStart
    /\ shadow = [position |-> CameraStart, mouseX |-> 0]

-----------------------------------------------------------------------------
(* Input events *)

NoFrameObserved ==
    /\ writers' = {}
    /\ framesWrote' = {}
    /\ framesSaw' = NoFrameSeen

NoLinkClicked == linkResult' = NoResult

\* triggerZoomOut() as called from a closure holding (anim, sel), followed by
\* the render its state update causes.
TriggerZoomOut(anim, sel) ==
    LET acts == triggerZoomOutGuard(anim, sel)
        anim2 == IF acts THEN TRUE ELSE isAnimatingOut
        fov1 == IF acts THEN InitialFov ELSE targetFov
        entered == anim2 # isAnimatingOut
    IN  /\ Rendered(Commit(selectedFrameId, anim2, fov1, isZoomed, tweens))
        /\ zoomOutClock' = IF entered THEN 0 ELSE zoomOutClock
        /\ clearCalls' = IF entered THEN 0 ELSE clearCalls

\* setSelectedFrameId(name) from the group's onClick, followed by the render.
Select(name) ==
    /\ Rendered(Commit(name, isAnimatingOut, targetFov, isZoomed, tweens))
    /\ zoomOutClock' = IF name # selectedFrameId THEN NoClock ELSE zoomOutClock
    /\ clearCalls' = clearCalls

\* A click on the mesh named n: the mesh's onClick (handleLinkClick) runs
\* first, then the event bubbles to the group's onClick.
ClickFrame(n) ==
    /\ mounted
    /\ active' = setActiveBySlug(active, SlugOf(n))
    /\ linkResult' = setActiveBySlugResult(SlugOf(n))
    /\ IF isClickedObject(clicked, n)
       THEN TriggerZoomOut(isAnimatingOut, selectedFrameId)
       ELSE IF onClickMaySelect(isAnimatingOut)
            THEN Select(n)
            ELSE /\ UNCHANGED <<framesVars, tweens>>
                 /\ UNCHANGED <<zoomOutClock, clearCalls>>
    /\ lastOp' = [op |-> "click", arg |-> n, from |-> selectedFrameId]
    /\ defaultPrevented' = FALSE
    /\ NoFrameObserved
    /\ UNCHANGED <<camera, delayedCalls, parallaxVars, lifeVars>>
    /\ UNCHANGED schedSideVars

\* onPointerMissed: a click on empty space
PointerMissed ==
    /\ mounted
    /\ TriggerZoomOut(isAnimatingOut, selectedFrameId)
    /\ lastOp' = [op |-> "pointerMissed", arg |-> Null, from |-> Null]
    /\ defaultPrevented' = FALSE
    /\ NoFrameObserved
    /\ NoLinkClicked
    /\ UNCHANGED <<camera, delayedCalls, parallaxVars, active, lifeVars>>
    /\ UNCHANGED schedSideVars

WheelDeltas == {-1, 0, 1}

\* A wheel event on the window.  handleWheel is registered only while an id
\* is selected, and calls the triggerZoomOut of the render that registered it.
Wheel(deltaY) ==
    /\ IF wheelListener.registered /\ wheelIsUp(deltaY)
       THEN /\ defaultPrevented' = TRUE
            /\ TriggerZoomOut(wheelListener.isAnimatingOut,
                              wheelListener.selectedFrameId)
       ELSE /\ defaultPrevented' = FALSE
            /\ UNCHANGED <<framesVars, tweens>>
            /\ UNCHANGED <<zoomOutClock, clearCalls>>
    /\ lastOp' = [op |-> "wheel", arg |-> IF deltaY < 0 THEN "up" ELSE "down",
                  from |-> Null]
    /\ NoFrameObserved
    /\ NoLinkClicked
    /\ UNCHANGED <<camera, delayedCalls, parallaxVars, active, lifeVars>>
    /\ UNCHANGED schedSideVars

\* handleMouseMove, registered on the window while the controller is mounted
MouseMove(clientX) ==
    /\ attached
    /\ mouseX' = NormalizedX(clientX)
    /\ shadow' = [shadow EXCEPT !.mouseX = NormalizedX(clientX)]
    /\ lastOp' = [op |-> "mousemove", arg |-> clientX, from |-> Null]
    /\ defaultPrevented' = FALSE
    /\ NoFrameObserved
    /\ NoLinkClicked
    /\ UNCHANGED <<framesVars, camera, gsapVars, basePosition, basePositionY, active>>
    /\ UNCHANGED <<mounted, attached, lifetimes, attachPosition>>
    /\ UNCHANGED <<zoomOutClock, clearCalls>>
    /\ UNCHANGED schedSideVars

-----------------------------------------------------------------------------
(* One animation frame *)

\* A timer that is due fires in the first tick at or after its time, so a
\* frame of up to MaxDelta may pass it by MaxDelta - 1; the zoom-out has two
\* timers in a row (the tween, then the delayed call).
FrameSlack == 2 * (MaxDelta - 1)
ClockCap == TweenDuration + DelayDuration + FrameSlack

\* The zoom-out completion: clearActiveClasses(); setIsAnimatingOut(false);
\* setIsZoomed(false); setSelectedFrameId(null); then the render of that batch.
\* n is the number of delayed calls that fired in this tick, tw the tweens
\* the tick left running.
AfterGsap(n, tw) ==
    IF ~mounted
    THEN \* the state updates of an unmounted component are dropped; the
         \* parent's setIsZoomed still takes effect
         [selectedFrameId |-> selectedFrameId, isAnimatingOut |-> isAnimatingOut,
          clicked |-> clicked, finalZoomInPosition |-> finalZoomInPosition,
          frameCenterWorld |-> frameCenterWorld, zoomInTargetQ |-> zoomInTargetQ,
          isZoomed |-> IF n > 0 THEN FALSE ELSE isZoomed,
          targetFov |-> targetFov, zoomOutTargetQ |-> zoomOutTargetQ,
          tweens |-> tw, wheelListener |-> wheelListener]
    ELSE IF n > 0 THEN Commit(Null, FALSE, targetFov, FALSE, tw)
         ELSE Commit(selectedFrameId, isAnimatingOut, targetFov, isZoomed, tw)

\* The useFrame subscribers of the components that are mounted
ParallaxStep(cam) ==
    IF attached THEN ParallaxUseFrame(cam, basePosition, basePositionY, mouseX)
    ELSE cam

FramesStep(cam, m, dt) ==
    IF mounted THEN FramesUseFrame(cam, m, dt) ELSE cam

\* One requestAnimationFrame turn of dt: the gsap ticker and the
\* react-three-fiber loop both run, in the order their callbacks were
\* registered (gsapFirst).  The fiber loop runs the useFrame subscribers in
\* mount order: MouseCameraController, then Frames.
Frame(dt, gsapFirst) ==
    LET \* gsap ticker first
        gA == GsapTick(camera.position, camera.positionY, tweens, delayedCalls, dt)
        rA == AfterGsap(gA.completions, gA.tweens)
        pA == ParallaxStep([camera EXCEPT !.position = gA.position,
                                          !.positionY = gA.positionY])
        fA == FramesStep(pA, MachineOf(rA), dt)
        \* fiber loop first
        pB == ParallaxStep(camera)
        fB == FramesStep(pB, Machine, dt)
        gB == GsapTick(fB.position, fB.positionY, tweens, delayedCalls, dt)
        rB == AfterGsap(gB.completions, gB.tweens)
        \* the order taken
        g == IF gsapFirst THEN gA ELSE gB
        r == IF gsapFirst THEN rA ELSE rB
        seen == IF gsapFirst THEN MachineOf(rA) ELSE Machine
        before == IF gsapFirst THEN pA ELSE pB
        wrote == IF mounted THEN FramesWrites(before, seen) ELSE {}
    IN  /\ Rendered(r)
        /\ camera' = IF gsapFirst THEN fA
                      ELSE [fB EXCEPT !.position = gB.position,
                                      !.positionY = gB.positionY]
        /\ delayedCalls' = g.delayedCalls
        /\ active' = IF g.completions > 0 THEN clearActiveClasses(active) ELSE active
        /\ clearCalls' = clearCalls + g.completions
        /\ zoomOutClock' = IF zoomOutClock = NoClock THEN NoClock
                           ELSE Min(zoomOutClock + dt, ClockCap)
        /\ lastOp' = [op |-> "frame", arg |-> Null, from |-> Null]
        /\ writers' = (IF attached THEN {"parallax"} ELSE {})
                      \cup (IF wrote \cap {"position", "quaternion"} # {}
                            THEN {"frames"} ELSE {})
                      \cup (IF g.rendered THEN {"gsap"} ELSE {})
        /\ framesWrote' = wrote
        /\ framesSaw' = IF mounted
                        THEN [isAnimatingOut |-> seen.isAnimatingOut,
                              selectedFrameId |-> seen.selectedFrameId,
                              clicked |-> seen.clicked]
                        ELSE NoFrameSeen
        /\ shadow' = IF attached
                     THEN [shadow EXCEPT !.position =
                              Lerp(shadow.position,
                                   ParallaxTargetX(attachPosition, shadow.mouseX))]
                     ELSE shadow
        /\ defaultPrevented' = FALSE
        /\ NoLinkClicked
        /\ UNCHANGED parallaxVars
        /\ UNCHANGED <<mounted, attached, lifetimes, attachPosition>>
        /\ UNCHANGED schedSideVars

-----------------------------------------------------------------------------
(* Mounting and unmounting *)

MaxLifetimes == 2

\* Frames unmounts: the wheel effect's cleanup removes handleWheel; the
\* zoom-out effect has no cleanup, so its tween and delayed call stay with gsap.
UnmountFrames ==
    /\ mounted
    /\ mounted' = FALSE
    /\ wheelListener' = NoListener
    /\ lastOp' = [op |-> "unmount", arg |-> Null, from |-> Null]
    /\ defaultPrevented' = FALSE
    /\ NoFrameObserved
    /\ NoLinkClicked
    /\ UNCHANGED <<selectedFrameId, isAnimatingOut, clicked, targetFov,
                   finalZoomInPosition, frameCenterWorld, zoomInTargetQ,
                   zoomOutTargetQ, isZoomed>>
    /\ UNCHANGED <<camera, gsapVars, parallaxVars, active, clearCalls, zoomOutClock>>
    /\ UNCHANGED <<attached, lifetimes, attachPosition, shadow>>
    /\ UNCHANGED schedSideVars

\* MouseCameraController unmounts: the effect's cleanup removes handleMouseMove
\* and its useFrame callback is unsubscribed.
DetachParallax ==
    /\ attached
    /\ attached' = FALSE
    /\ lastOp' = [op |-> "detach", arg |-> Null, from |-> Null]
    /\ defaultPrevented' = FALSE
    /\ NoFrameObserved
    /\ NoLinkClicked
    /\ UNCHANGED <<framesVars, camera, gsapVars, parallaxVars, active,
                   clearCalls, zoomOutClock>>
    /\ UNCHANGED <<mounted, lifetimes, attachPosition, shadow>>
    /\ UNCHANGED schedSideVars

\* const mouseX = useRef(0) of a new mount (old: the previous mount's value)
attachedMouseXLeaks(old) == old
attachedMouseX(old) == 0

\* basePositionRef.current.copy(camera.position)
capturedBaseOrigin(pos) == 0
capturedBase(pos) == pos

\* MouseCameraController mounts again: new refs, then its effect runs.
AttachParallax ==
    /\ ~attached
    /\ lifetimes < MaxLifetimes
    /\ attached' = TRUE
    /\ lifetimes' = lifetimes + 1
    /\ mouseX' = attachedMouseX(mouseX)
    /\ basePosition' = capturedBase(camera.position)
    /\ basePositionY' = capturedBase(camera.positionY)
    /\ attachPosition' = camera.position
    /\ shadow' = [position |-> camera.position, mouseX |-> 0]
    /\ lastOp' = [op |-> "attach", arg |-> Null, from |-> Null]
    /\ defaultPrevented' = FALSE
    /\ NoFrameObserved
    /\ NoLinkClicked
    /\ UNCHANGED <<framesVars, camera, gsapVars, active, clearCalls, zoomOutClock>>
    /\ UNCHANGED mounted
    /\ UNCHANGED schedSideVars

-----------------------------------------------------------------------------
(* useFrameRate: the rate-limited scheduler *)

\* Scheduler time is counted in 1/240 of a second.
TicksPerSecond == 8 * 30

\* The subscriptions, in the order their useFrame was registered:
\* useOptimizedParticles' useFrameRate(updateParticles, 30), then the panel's
\* useFrameRate(..., 30) of Frame.
SubOrderSwapped == <<"panel", "particles">>
SubOrder == <<"particles", "panel">>
Subs == {SubOrder[i] : i \in 1..Len(SubOrder)}

Rates == {30, 60}
MaxRenderDelta == 5
RenderDeltas == 1..MaxRenderDelta
MaxElapsed == 160
MaxJitterElapsed == 40

\* In JavaScript 1 / 0 is Infinity: greater than every accumulated time.
Infinity == TicksPerSecond * (MaxElapsed + MaxRenderDelta + 1)

\* const targetInterval = 1 / fps
targetInterval(f) ==
    IF f > 0 THEN TicksPerSecond \div f
    ELSE IF f < 0 THEN -(TicksPerSecond \div (-f))
    ELSE Infinity

\* if (frameRef.current >= targetInterval)
dueAlways(acc, interval) == TRUE
dueStrictly(acc, interval) == acc > interval
due(acc, interval) == acc >= interval

\* const actualDelta = currentTime - lastTimeRef.current
actualDeltaFixed(currentTime, lastTime, interval) == interval
actualDeltaFromStart(currentTime, lastTime, interval) == currentTime
actualDelta(currentTime, lastTime, interval) == currentTime - lastTime

\* frameRef.current = 0
frameRefAfterFireKeepsExcess(acc, interval) == acc - interval
frameRefAfterFire(acc, interval) == 0

\* if (!enabled) return: frameRef.current after a tick of a disabled hook
disabledFrameRefAccumulates(frame, delta) == frame + delta
disabledFrameRef(frame, delta) == frame

\* The useFrame callback of one useFrameRate(callback, f, en), called with
\* the tick's delta when state.clock.elapsedTime is currentTime, on the refs
\* (frame, lastTime): the refs afterwards, whether callback ran, and with what.
useFrameRate(frame, lastTime, f, en, delta, currentTime) ==
    LET acc == frame + delta
        interval == targetInterval(f)
    IN  IF ~en
        THEN [frameRef |-> disabledFrameRef(frame, delta), lastTimeRef |-> lastTime,
              fired |-> FALSE, delta |-> 0]
        ELSE IF due(acc, interval)
             THEN [frameRef |-> frameRefAfterFire(acc, interval),
                   lastTimeRef |-> currentTime,
                   fired |-> TRUE,
                   delta |-> actualDelta(currentTime, lastTime, interval)]
             ELSE [frameRef |-> acc, lastTimeRef |-> lastTime,
                   fired |-> FALSE, delta |-> 0]

-----------------------------------------------------------------------------
(* useOptimizedParticles: the particle simulator *)

\* Lengths and speeds are counted in 1/10000 of a scene unit, angles in
\* milliradians, sines in thousandths.
MaxRadius == 8000
BoundsZ == 1500
FloatSpeed == 5
FloatAmplitude == 10
DampeningPerMille == 998
ParticleCount == 2

\* Division rounding towards zero
Quot(a, b) == Sign(a) * (Abs(a) \div b)

RECURSIVE IsqrtFrom(_, _)
IsqrtFrom(n, x) ==
    LET y == (x + n \div x) \div 2
    IN  IF y >= x THEN x ELSE IsqrtFrom(n, y)

\* floor(Math.sqrt(n))
Isqrt(n) == IF n = 0 THEN 0 ELSE IsqrtFrom(n, n)

Pi == 3142

\* Math.sin on [0, Pi] (Bhaskara's rational approximation)
SinHalfTurn(x) ==
    LET q == x * (Pi - x)
    IN  (((16 * q) \div 100) * 1000) \div ((5 * Pi * Pi - 4 * q) \div 100)

\* Math.sin(a)
Sin(a) ==
    LET r == a % (2 * Pi)
    IN  IF r <= Pi THEN SinHalfTurn(r) ELSE -SinHalfTurn(r - Pi)

\* Math.cos(a)
Cos(a) == Sin(a + Pi \div 2)

\* preCalculatedValues[i]
preCalcSpeed(i) == FloatSpeed + (i % 3) * 3
preCalcAmplitude(i) == FloatAmplitude + (i % 2) * 5
preCalcPhase(i) == i * 100

\* const timeOffset = time * preCalc.speed + preCalc.phase
timeOffset(time, i) == Quot(time * preCalcSpeed(i) * 5, 12) + preCalcPhase(i)

\* new Float32Array(count * 3)
bufferLengthPlusOne(n) == n * 3 + 1
bufferLength(n) == n * 3

NewBuffer(n) == [j \in 1..bufferLength(n) |-> 0]

\* buf[idx] = v on a typed array: a write past the end is ignored
Store(buf, idx, v) ==
    IF idx + 1 \in DOMAIN buf THEN [buf EXCEPT ![idx + 1] = v] ELSE buf

\* What Math.random() returned, in hundredths, for the six draws of one
\* particle that the initialization below reads
DrawTuples ==
    {<<50, 50, 50, 50, 50, 50>>,
     <<95, 95, 95, 95, 95, 95>>,
     <<0, 0, 0, 0, 0, 0>>,
     <<95, 50, 0, 0, 95, 50>>,
     <<50, 0, 95, 95, 0, 0>>}

\* (Math.random() - 0.5) * scale, with scale in model units
Centered(r, scale) == Quot((r - 50) * scale, 100)

RECURSIVE InitBuffers(_, _, _, _)
\* for (let i = 0; i < count * 3; i += 3) { positions.current[i] = ...; ... }
InitBuffers(pos, vel, draws, k) ==
    IF k >= Len(draws) THEN [positions |-> pos, velocities |-> vel]
    ELSE LET r == draws[k + 1]
             i == 3 * k
             p1 == Store(pos, i, Centered(r[1], 20000))
             p2 == Store(p1, i + 1, Centered(r[2], 20000))
             p3 == Store(p2, i + 2, Centered(r[3], 3000))
             v1 == Store(vel, i, Centered(r[4], 10))
             v2 == Store(v1, i + 1, Centered(r[5], 10))
             v3 == Store(v2, i + 2, Centered(r[6], 2))
         IN  InitBuffers(p3, v3, draws, k + 1)

\* vel[i] *= dampening
Dampen(v) == Quot(v * DampeningPerMille, 1000)

\* vel[i] *= -0.3
BounceFull(v) == 0 - v
Bounce(v) == Quot(0 - 3 * v, 10)

\* distance > maxRadius
outsideCircleNever(x, y) == FALSE
outsideCircle(x, y) == x * x + y * y > MaxRadius * MaxRadius

\* Math.cos(angle) * maxRadius * 0.9, resp. Math.sin(angle) * ..., for the
\* angle of (x, y): the coordinate c of the point pulled back to 0.9 maxRadius
pulledBackToRim(c, x, y) == Quot(c * MaxRadius, Isqrt(x * x + y * y))
pulledBack(c, x, y) == Quot(c * ((MaxRadius * 9) \div 10), Isqrt(x * x + y * y))

\* Math.abs(pos[i + 2]) > bounds.z
outsideZ(z) == Abs(z) > BoundsZ

\* Math.sign(pos[i + 2]) * bounds.z
clampedZUnsigned(z) == BoundsZ
clampedZ(z) == Sign(z) * BoundsZ

\* Particle k after the first three steps of the loop body of
\* updateParticles: pos += vel; pos += floating motion; vel *= dampening
movedParticle(pos, vel, k, time) ==
    LET i == 3 * k
        t == timeOffset(time, k)
        amp == preCalcAmplitude(k)
    IN  [x |-> pos[i + 1] + vel[i + 1] + Quot(Sin(t) * amp, 1000),
         y |-> pos[i + 2] + vel[i + 2] + Quot(Cos((t * 7) \div 10) * amp, 1000),
         z |-> pos[i + 3] + vel[i + 3] + Quot(Sin(t \div 2) * amp, 2000),
         vx |-> Dampen(vel[i + 1]),
         vy |-> Dampen(vel[i + 2]),
         vz |-> Dampen(vel[i + 3])]

\* One pass of the loop body of updateParticles for particle k
advanceParticle(pos, vel, k, time) ==
    LET i == 3 * k
        m == movedParticle(pos, vel, k, time)
        x == m.x
        y == m.y
        z == m.z
        vx == m.vx
        vy == m.vy
        vz == m.vz
        out == outsideCircle(x, y)
        p1 == Store(pos, i, IF out THEN pulledBack(x, x, y) ELSE x)
        p2 == Store(p1, i + 1, IF out THEN pulledBack(y, x, y) ELSE y)
        p3 == Store(p2, i + 2, IF outsideZ(z) THEN clampedZ(z) ELSE z)
        v1 == Store(vel, i, IF out THEN Bounce(vx) ELSE vx)
        v2 == Store(v1, i + 1, IF out THEN Bounce(vy) ELSE vy)
        v3 == Store(v2, i + 2, IF outsideZ(z) THEN Bounce(vz) ELSE vz)
    IN  [positions |-> p3, velocities |-> v3]

RECURSIVE updateParticlesFrom(_, _, _, _, _)
updateParticlesFrom(pos, vel, n, time, k) ==
    IF k >= n THEN [positions |-> pos, velocities |-> vel]
    ELSE LET a == advanceParticle(pos, vel, k, time)
         IN  updateParticlesFrom(a.positions, a.velocities, n, time, k + 1)

\* updateParticles(state) with state.clock.elapsedTime = time
updateParticles(pos, vel, n, time) == updateParticlesFrom(pos, vel, n, time, 0)

\* useOptimizedParticles(n) at mount, Math.random() returning draws
InitParticles(n, draws) ==
    LET b == InitBuffers(NewBuffer(n), NewBuffer(n), draws, 0)
    IN  /\ count = n
        /\ positions = b.positions
        /\ velocities = b.velocities
        /\ panelRead = <<>>

\* useOptimizedParticles(0)
InitNoParticles == InitParticles(0, <<>>)

\* The array of the points' position attribute: <bufferAttribute
\* array={particlePositions}> hands the simulator's own Float32Array to the
\* renderer, so the attribute array and particlePositions are one object.
attributeArray(particlePositions) == particlePositions

RECURSIVE panelCopyFrom(_, _, _)
panelCopyFrom(buf, n, i) ==
    IF i >= n * 3 THEN buf
    ELSE panelCopyFrom(Store(buf, i, buf[i + 1]), n, i + 1)

\* for (let i = 0; i < particleCount * 3; i++) positions[i] = particlePositions[i]
\* with positions = attributeArray(particlePositions): the array afterwards
panelCopyShifted(particlePositions, n) ==
    [j \in DOMAIN particlePositions |->
        IF j < Len(particlePositions) THEN particlePositions[j + 1]
        ELSE particlePositions[j]]
panelCopy(particlePositions, n) ==
    panelCopyFrom(attributeArray(particlePositions), n, 0)

\* Does the useFrame callback of subscription a run before that of b
RunsBefore(a, b) ==
    \E i, j \in 1..Len(SubOrder) : i < j /\ SubOrder[i] = a /\ SubOrder[j] = b

\* The ref cells the hook instance of subscription s reads and writes:
\* const frameRef = useRef(0); const lastTimeRef = useRef(0) of its own call
ownRefsShared(s) == SubOrder[1]
ownRefs(s) == s

InitSched ==
    /\ elapsedTime = 0
    /\ frameRef = [s \in Subs |-> 0]
    /\ lastTimeRef = [s \in Subs |-> 0]
    /\ enabled = [s \in Subs |-> TRUE]
    /\ tickDelta = 0
    /\ firedNow = [s \in Subs |-> FALSE]
    /\ passedDelta = [s \in Subs |-> 0]
    /\ fires = [s \in Subs |-> 0]
    /\ deltaSum = [s \in Subs |-> 0]
    /\ offTime = [s \in Subs |-> 0]
    /\ solo = [s \in Subs |->
                 [frameRef |-> 0, lastTimeRef |-> 0, fired |-> FALSE, delta |-> 0]]

\* One render tick of delta: the clock advances, then every subscription's
\* useFrame callback runs to completion, one after the other in SubOrder.
RenderTick(delta) ==
    LET now == elapsedTime + delta
        out == [s \in Subs |->
                   useFrameRate(frameRef[ownRefs(s)], lastTimeRef[ownRefs(s)],
                                fps[s], enabled[s], delta, now)]
    IN  /\ elapsedTime' = now
        /\ frameRef' = [s \in Subs |-> out[s].frameRef]
        /\ lastTimeRef' = [s \in Subs |-> out[s].lastTimeRef]
        /\ firedNow' = [s \in Subs |-> out[s].fired]
        /\ passedDelta' = [s \in Subs |-> out[s].delta]
        /\ fires' = [s \in Subs |-> fires[s] + (IF out[s].fired THEN 1 ELSE 0)]
        /\ deltaSum' = [s \in Subs |-> deltaSum[s] + out[s].delta]
        /\ offTime' = [s \in Subs |->
                          IF out[s].fired THEN 0
                          ELSE IF enabled[s] THEN offTime[s]
                          ELSE offTime[s] + delta]
        /\ tickDelta' = delta
        /\ solo' = [s \in Subs |->
                       useFrameRate(solo[s].frameRef, solo[s].lastTimeRef,
                                    fps[s], enabled[s], delta, now)]
        /\ LET advanceFirst == RunsBefore("particles", "panel")
               advance(pos, vel) ==
                   IF out["particles"].fired
                   THEN updateParticles(pos, vel, count, now)
                   ELSE [positions |-> pos, velocities |-> vel]
               copy(pos) ==
                   IF out["panel"].fired THEN panelCopy(pos, count) ELSE pos
               seen == IF advanceFirst
                       THEN advance(positions, velocities).positions
                       ELSE positions
               u == IF advanceFirst
                    THEN [positions |-> copy(seen),
                          velocities |-> advance(positions, velocities).velocities]
                    ELSE advance(copy(seen), velocities)
           IN  /\ positions' = u.positions
               /\ velocities' = u.velocities
               /\ panelRead' = IF out["panel"].fired THEN seen ELSE <<>>
        /\ UNCHANGED <<fps, enabled, renderDelta, count>>
        /\ UNCHANGED cameraSideVars

\* A render tick under an irregular frame time
JitterTick(delta) ==
    /\ elapsedTime + delta <= MaxJitterElapsed
    /\ RenderTick(delta)

\* The component re-renders with another enabled argument
SetEnabled(s, en) ==
    /\ enabled[s] # en
    /\ enabled' = [enabled EXCEPT ![s] = en]
    /\ tickDelta' = 0
    /\ firedNow' = [t \in Subs |-> FALSE]
    /\ panelRead' = <<>>
    /\ UNCHANGED <<elapsedTime, frameRef, lastTimeRef, fps, renderDelta,
                   passedDelta, fires, solo, deltaSum, offTime, count, positions,
                   velocities>>
    /\ UNCHANGED cameraSideVars

\* A render tick of a steady run: every tick has the same delta
SteadyTick ==
    /\ elapsedTime + renderDelta <= MaxElapsed
    /\ RenderTick(renderDelta)

\* A render tick while subscriptions are being switched off and on
MaxSubsElapsed == 12

SubsTick(delta) ==
    /\ elapsedTime + delta <= MaxSubsElapsed
    /\ RenderTick(delta)

\* A render tick of a subscription that was given any fps argument
AnyRateTick(delta) ==
    /\ elapsedTime + delta <= MaxJitterElapsed
    /\ RenderTick(delta)

-----------------------------------------------------------------------------
(* Specifications *)

\* The camera side: Frames, gsap, MouseCameraController and the registry,
\* with the pointer resting at the centre of the viewport.
Init ==
    /\ InitCamera
    /\ InitSched
    /\ InitNoParticles
    /\ fps = [s \in Subs |-> 30]
    /\ renderDelta = 0

Next ==
    \/ \E n \in ObjectNames : ClickFrame(n)
    \/ PointerMissed
    \/ \E d \in WheelDeltas : Wheel(d)
    \/ \E dt \in Deltas, gsapFirst \in BOOLEAN : Frame(dt, gsapFirst)

Spec == Init /\ [][Next]_vars

\* Frames may unmount at any moment (the pointer only clicks frame "f1" or
\* empty space).
NextDetach ==
    \/ ClickFrame("f1")
    \/ PointerMissed
    \/ \E dt \in Deltas, gsapFirst \in BOOLEAN : Frame(dt, gsapFirst)
    \/ UnmountFrames

SpecDetach == Init /\ [][NextDetach]_vars

\* The registry used directly: any holder of useCachedElements' result calls
\* setActiveBySlug(slug) or clearActiveClasses(), between the clicks and
\* frames of the scene. "f2" is a slug no element links to.
RegistrySlugs == {Elements[i] : i \in 1..Len(Elements)} \cup {"f2"}

SetActiveBySlugCall(slug) ==
    /\ active' = setActiveBySlug(active, slug)
    /\ linkResult' = setActiveBySlugResult(slug)
    /\ lastOp' = [op |-> "setActiveBySlug", arg |-> slug, from |-> Null]
    /\ defaultPrevented' = FALSE
    /\ NoFrameObserved
    /\ UNCHANGED <<framesVars, camera, gsapVars, parallaxVars, clearCalls,
                   zoomOutClock, lifeVars>>
    /\ UNCHANGED schedSideVars

ClearActiveClassesCall ==
    /\ active' = clearActiveClasses(active)
    /\ lastOp' = [op |-> "clearActiveClasses", arg |-> Null, from |-> Null]
    /\ defaultPrevented' = FALSE
    /\ NoFrameObserved
    /\ NoLinkClicked
    /\ UNCHANGED <<framesVars, camera, gsapVars, parallaxVars, clearCalls,
                   zoomOutClock, lifeVars>>
    /\ UNCHANGED schedSideVars

NextRegistry ==
    \/ \E slug \in RegistrySlugs : SetActiveBySlugCall(slug)
    \/ ClearActiveClassesCall
    \/ ClickFrame("f1")
    \/ PointerMissed
    \/ \E dt \in Deltas, gsapFirst \in BOOLEAN : Frame(dt, gsapFirst)

SpecRegistry == Init /\ [][NextRegistry]_vars

\* MouseCameraController alone: pointer moves, render ticks, and the
\* controller unmounting and mounting again.
NextParallax ==
    \/ \E clientX \in 0..InnerWidth : MouseMove(clientX)
    \/ \E dt \in Deltas, gsapFirst \in BOOLEAN : Frame(dt, gsapFirst)
    \/ DetachParallax
    \/ AttachParallax

SpecParallax == Init /\ [][NextParallax]_vars

\* The scheduler under irregular frame times, for any rates.
InitJitter ==
    /\ InitCamera
    /\ InitSched
    /\ InitNoParticles
    /\ fps \in [Subs -> Rates]
    /\ renderDelta = 0

NextJitter == \E d \in RenderDeltas : JitterTick(d)

SpecJitter == InitJitter /\ [][NextJitter]_vars

\* The scheduler over a long run with one fixed render delta.
InitSteady ==
    /\ InitCamera
    /\ InitSched
    /\ InitNoParticles
    /\ fps \in [Subs -> Rates]
    /\ renderDelta \in RenderDeltas

NextSteady == SteadyTick

SpecSteady == InitSteady /\ [][NextSteady]_vars

\* The particle simulator driven by the scheduler over a steady run.
InitSim ==
    /\ InitCamera
    /\ InitSched
    /\ fps = [s \in Subs |-> 30]
    /\ renderDelta \in RenderDeltas
    /\ \E draws \in [1..ParticleCount -> DrawTuples] : InitParticles(ParticleCount, draws)

NextSim == SteadyTick

SpecSim == InitSim /\ [][NextSim]_vars

\* The particle simulator and the panel under irregular frame times.
MaxSimJitterElapsed == 20

SimJitterTick(delta) ==
    /\ elapsedTime + delta <= MaxSimJitterElapsed
    /\ RenderTick(delta)

InitSimJitter ==
    /\ InitCamera
    /\ InitSched
    /\ fps = [s \in Subs |-> 30]
    /\ renderDelta = 0
    /\ \E draws \in [1..ParticleCount -> DrawTuples] : InitParticles(ParticleCount, draws)

NextSimJitter == \E d \in RenderDeltas : SimJitterTick(d)

SpecSimJitter == InitSimJitter /\ [][NextSimJitter]_vars

\* Two subscriptions under irregular frame times, each of which may be
\* switched off and on between ticks.
NextSubs ==
    \/ \E d \in RenderDeltas : SubsTick(d)
    \/ \E s \in Subs, en \in BOOLEAN : SetEnabled(s, en)

SpecSubs == InitJitter /\ [][NextSubs]_vars

\* The scheduler with fps arguments that are not positive.
InvalidRates == {0 - 30, 0}
AnyRates == Rates \cup InvalidRates

InitAnyRate ==
    /\ InitCamera
    /\ InitSched
    /\ InitNoParticles
    /\ fps \in [Subs -> AnyRates]
    /\ renderDelta = 0

NextAnyRate == \E d \in RenderDeltas : AnyRateTick(d)

SpecAnyRate == InitAnyRate /\ [][NextAnyRate]_vars

-----------------------------------------------------------------------------
(* Properties of the camera state machine *)

\* The step just taken called triggerZoomOut from the state before it: a
\* click on empty space, a click on the object zoomed on, or an upward
\* wheel gesture reaching a registered handleWheel.
TriggerZoomOutCalled ==
    \/ lastOp'.op = "pointerMissed"
    \/ lastOp'.op = "click" /\ clicked # NoObject /\ lastOp'.arg = clicked
    \/ lastOp'.op = "wheel" /\ lastOp'.arg = "up" /\ wheelListener.registered

\* C1: triggerZoomOut is idempotent.  Called while the machine is Idle it
\* changes nothing; called again while the machine is already ZoomingOut it
\* leaves the selected id, the animating-out flag, the fov target, the
\* zoom-in/out targets and the pending tweens and timers as the first call
\* left them.
C1_TriggerZoomOutIdempotent ==
    [][(TriggerZoomOutCalled /\ (Idle \/ ZoomingOut))
        => UNCHANGED <<framesVars, camera, gsapVars, clearCalls, zoomOutClock>>]_vars

\* A second triggerZoomOut arrived while the zoom-out tween was running.
C1_Witness ==
    /\ lastOp.op = "pointerMissed"
    /\ ZoomingOut
    /\ zoomOutClock > 0
    /\ tweens # <<>>

\* C2: once the tween time plus the delay (plus the frame granularity) have
\* elapsed since triggerZoomOut, the machine is Idle, the selected id is
\* null, and the completion has called clearActiveClasses exactly once.
C2_ZoomOutCompletes ==
    (zoomOutClock # NoClock
        /\ zoomOutClock >= TweenDuration + DelayDuration + FrameSlack)
    => (Idle /\ selectedFrameId = Null /\ clearCalls = 1
        /\ tweens = <<>> /\ delayedCalls = <<>>)

C2_Witness ==
    /\ zoomOutClock # NoClock
    /\ zoomOutClock >= TweenDuration + DelayDuration + FrameSlack
    /\ Idle
    /\ clearCalls = 1
    /\ active = {}

\* C3: a select of an id that resolves to no scene object is a no-op: from
\* Idle and from ZoomIn alike it leaves the selected id, the resolved target
\* object, the zoom-in targets, the fov target and the zoomed flag unchanged.
C3_UnknownSelectIsNoOp ==
    [][(lastOp'.op = "click" /\ lastOp'.arg \in UnknownIds
            /\ (Idle \/ \E f \in FrameIds : ZoomIn(f)))
        => UNCHANGED <<selectedFrameId, clicked, finalZoomInPosition,
                       frameCenterWorld, zoomInTargetQ, targetFov, isZoomed>>]_vars

\* C4: from ZoomIn(f), a select of another resolvable id g moves the machine
\* to ZoomIn(g) in one step: the selected id is g (never null in between),
\* the animating-out flag is not set, no zoom-out tween starts, and the
\* zoom-in targets are those of g.
C4_SelectOtherIsDirect ==
    [][\A f, g \in FrameIds :
          (f # g /\ ZoomIn(f) /\ lastOp'.op = "click" /\ lastOp'.arg = g)
          => /\ selectedFrameId' = g
             /\ clicked' = g
             /\ ~isAnimatingOut'
             /\ tweens' = tweens /\ delayedCalls' = delayedCalls
             /\ finalZoomInPosition' = LocalToWorld(g, GoldenEye)
             /\ frameCenterWorld' = LocalToWorld(g, GoldenCenter)
             /\ zoomInTargetQ' = calculateLookAtQuaternion(LocalToWorld(g, GoldenEye),
                                                          LocalToWorld(g, GoldenCenter))
             /\ targetFov' = ZoomFov
             /\ isZoomed']_vars

C4_Witness ==
    /\ lastOp.op = "click"
    /\ lastOp.from = "f1"
    /\ lastOp.arg = "f2"
    /\ ZoomIn("f2")
    /\ finalZoomInPosition = LocalToWorld("f2", GoldenEye)
    /\ camera.fov > InitialFov

\* C5: while the machine is ZoomingOut a click on any frame is ignored, and
\* the selected id, the resolved target, the zoom-in targets and the fov
\* target do not change in any step that leaves it ZoomingOut; the machine
\* leaves ZoomingOut only by the completion, which resets it to Idle.
C5_SelectIgnoredWhileZoomingOut ==
    [][ZoomingOut =>
          IF isAnimatingOut'
          THEN UNCHANGED <<selectedFrameId, clicked, finalZoomInPosition,
                           frameCenterWorld, zoomInTargetQ, zoomOutTargetQ,
                           targetFov, isZoomed>>
          ELSE lastOp'.op = "frame" /\ Idle']_vars

\* A click on another frame arrived while the machine was ZoomingOut.
C5_Witness ==
    /\ lastOp.op = "click"
    /\ lastOp.arg \in FrameIds
    /\ lastOp.arg # selectedFrameId
    /\ ZoomingOut
    /\ selectedFrameId \in FrameIds

\* The step just taken is one of the three zoom-out gestures.
ZoomOutGesture ==
    \/ lastOp'.op = "pointerMissed"
    \/ lastOp'.op = "click" /\ lastOp'.arg = clicked
    \/ lastOp'.op = "wheel" /\ lastOp'.arg = "up"

\* C6: from ZoomIn(t), a click on t, a click on empty space and an upward
\* wheel gesture each move the machine to ZoomingOut with the selected id
\* still t, the fov target back at the initial value and the tween started.
C6_GesturesZoomOut ==
    [][\A t \in FrameIds :
          (ZoomIn(t) /\ ZoomOutGesture)
          => /\ isAnimatingOut'
             /\ selectedFrameId' = t
             /\ clicked' = t
             /\ targetFov' = InitialFov
             /\ tweens' = Append(tweens, NewTween)]_vars

\* The wheel gesture has just started a zoom-out.
C6_Witness ==
    /\ lastOp.op = "wheel"
    /\ lastOp.arg = "up"
    /\ defaultPrevented
    /\ ZoomingOut
    /\ zoomOutClock = 0
    /\ selectedFrameId \in FrameIds

C6_WitnessClickSame ==
    /\ lastOp.op = "click"
    /\ lastOp.arg = selectedFrameId
    /\ ZoomingOut
    /\ zoomOutClock = 0

C6_WitnessPointerMissed ==
    /\ lastOp.op = "pointerMissed"
    /\ ZoomingOut
    /\ zoomOutClock = 0

\* The machine as the Frames useFrame saw it in the last frame
SawIdle == framesSaw.selectedFrameId = Null /\ ~framesSaw.isAnimatingOut

\* C7: in every render tick at most one of the state machine (its useFrame
\* and its zoom-out tween) and the parallax controller writes the camera
\* position/orientation; when the machine is in ZoomIn or ZoomingOut the
\* parallax controller does not write.
C7_SingleCameraWriter ==
    lastOp.op = "frame"
    => /\ ~("parallax" \in writers /\ writers \cap {"frames", "gsap"} # {})
       /\ (~SawIdle => "parallax" \notin writers)

\* C8 as stated: in a tick that evaluates the machine Idle, the Frames
\* useFrame writes nothing on the camera: not position, not orientation,
\* not field of view.
C8_IdleWritesNothing ==
    (lastOp.op = "frame" /\ SawIdle) => framesWrote = {}

\* C8 as amended: in a tick that evaluates the machine Idle, the Frames
\* useFrame writes neither position nor orientation (the camera leaves the
\* tick as the parallax controller alone set it), and it writes the field
\* of view exactly when it was farther than the epsilon from its target.
C8_IdleWritesOnlyFov ==
    [][(lastOp'.op = "frame" /\ SawIdle')
        => /\ framesWrote' \subseteq {"fov"}
           /\ ("fov" \in framesWrote') = (Abs(camera.fov - targetFov) > FovEps)
           /\ "fov" \notin framesWrote' => camera'.fov = camera.fov
           /\ camera'.position
                = ParallaxUseFrame(camera, basePosition, basePositionY, mouseX).position
           /\ camera'.quaternion
                = ParallaxUseFrame(camera, basePosition, basePositionY,
                                   mouseX).quaternion]_vars

\* The first Idle tick after a ZoomingOut -> Idle transition still moved the fov.
C8_Witness ==
    /\ lastOp.op = "frame"
    /\ SawIdle
    /\ Idle
    /\ clearCalls = 1
    /\ framesWrote = {"fov"}

-----------------------------------------------------------------------------
(* Properties of the rate-limited scheduler *)

\* C9: on each render tick a subscription's accumulated time grows by the
\* tick's delta and its callback runs iff the accumulated time has reached
\* 1/fps; when it runs, it is passed the tick's elapsedTime minus
\* lastTimeRef, the accumulated time is reset to 0 and lastTimeRef becomes
\* the tick's elapsedTime; when it does not run, lastTimeRef is unchanged.
C9_SchedulerTick ==
    [][\A s \in Subs :
          enabled[s] =>
            LET acc == frameRef[s] + (elapsedTime' - elapsedTime)
            IN  /\ firedNow'[s] = (acc >= targetInterval(fps[s]))
                /\ firedNow'[s] =>
                      /\ passedDelta'[s] = elapsedTime' - lastTimeRef[s]
                      /\ frameRef'[s] = 0
                      /\ lastTimeRef'[s] = elapsedTime'
                      /\ fires'[s] = fires[s] + 1
                /\ ~firedNow'[s] =>
                      /\ lastTimeRef'[s] = lastTimeRef[s]
                      /\ frameRef'[s] = acc
                      /\ fires'[s] = fires[s]]_vars

\* A later fire under jitter: the callback got more than the fixed interval.
C9_Witness ==
    \E s \in Subs :
        /\ firedNow[s]
        /\ fires[s] >= 2
        /\ passedDelta[s] > targetInterval(fps[s])
        /\ frameRef[s] = 0
        /\ lastTimeRef[s] = elapsedTime

\* C10: over a long run (half a second or more) with a fixed render delta
\* below 1/fps, the number of fires is fps * elapsedTime within rounding
\* (one fire plus one render tick), whatever the render delta.
C10_FiresAtTargetRate ==
    \A s \in Subs :
        (renderDelta < targetInterval(fps[s]) /\ 2 * elapsedTime >= TicksPerSecond)
        => Abs(fires[s] * targetInterval(fps[s]) - elapsedTime)
             <= targetInterval(fps[s]) + renderDelta

\* C11: a subscription whose fps argument is zero or negative runs its
\* callback on every render tick.
C11_InvalidRateFiresEveryTick ==
    \A s \in Subs : (fps[s] <= 0 /\ tickDelta > 0) => firedNow[s]

\* The negative half of C11 alone: 1 / fps is below zero, so every tick is due.
C11_NegativeRateFiresEveryTick ==
    \A s \in Subs : (fps[s] < 0 /\ tickDelta > 0) => firedNow[s]

-----------------------------------------------------------------------------
(* Properties of the particle simulator *)

\* Particle k of the buffers lies within the circle and the z bounds.
particleInBounds(k) ==
    /\ ~outsideCircle(positions[3 * k + 1], positions[3 * k + 2])
    /\ ~outsideZ(positions[3 * k + 3])

\* C12: in every state of a particle set, right after creation and after any
\* number of advance calls, every particle has planar radius <= maxRadius
\* and |z| <= bounds.z.
C12_ParticlesAlwaysInBounds ==
    \A k \in 0..(count - 1) : particleInBounds(k)

\* C13: the position and velocity buffers of a set of N particles have
\* length 3 N at creation and after any number of advance calls.
C13_BufferLengths ==
    /\ Len(positions) = 3 * count
    /\ Len(velocities) = 3 * count
    /\ count = ParticleCount

\* Several advance calls have run and moved the particles.
C13_Witness ==
    /\ fires["particles"] >= 3
    /\ count > 0
    /\ Len(positions) = 3 * count
    /\ \E j \in 1..Len(positions) : positions[j] # 0

-----------------------------------------------------------------------------
(* Properties of unmounting, the registry, the parallax controller and the
   wheel handler *)

\* C14: once Frames is unmounted while the zoom-out tween or its delayed
\* call is in flight, the completion callback never runs: no step after the
\* unmount calls clearActiveClasses, clears the markers or resets the zoomed
\* flag.
C14_NoCompletionAfterUnmount ==
    [][(~mounted)
        => /\ clearCalls' = clearCalls
           /\ active' = active
           /\ isZoomed' = isZoomed]_vars

\* C15: a click on frame n calls setActiveBySlug with n's slug.  When no
\* element links to the slug it returns -1 and every marker stays as it
\* was; when element i does, it returns the index of i and i alone is
\* marked.  Either way, unless the machine is zooming out or n is the frame
\* zoomed on, the click selects n and the machine enters ZoomIn(n).
C15_LookupMissIsHarmless ==
    [][\A n \in FrameIds :
          (lastOp'.op = "click" /\ lastOp'.arg = n)
          => LET i == findElementBySlug(SlugOf(n))
             IN  /\ i = 0 => (linkResult' = -1 /\ active' = active)
                 /\ i # 0 => (linkResult' = i - 1 /\ active' = {i})
                 /\ (~isAnimatingOut /\ clicked # n)
                    => /\ selectedFrameId' = n
                       /\ clicked' = n
                       /\ ~isAnimatingOut'
                       /\ targetFov' = ZoomFov
                       /\ isZoomed']_vars

\* A click on the frame without an element selected it and left the marker
\* of an earlier click in place.
C15_Witness ==
    /\ lastOp.op = "click"
    /\ lastOp.arg = "f2"
    /\ linkResult = -1
    /\ ZoomIn("f2")
    /\ active = {1}

\* C16: basePosition is the camera position at the moment the controller
\* mounted, and no render tick and no pointer move of that mount changes it.
C16_BasePositionSetOnce ==
    [][/\ attached' => basePosition' = attachPosition'
       /\ (attached /\ attached') => basePosition' = basePosition]_vars

\* A second mount captured a position away from the start, and the render
\* ticks have since moved the camera away from that base.
C16_Witness ==
    /\ attached
    /\ lifetimes = 2
    /\ lastOp.op = "frame"
    /\ basePosition # CameraStart
    /\ camera.position # basePosition

\* C17: the normalized pointer coordinate lies in [-1, 1]: it is 0 at mount
\* and 2 clientX / innerWidth - 1 after a pointer move with
\* 0 <= clientX <= innerWidth.
C17_PointerCoordinateInRange ==
    /\ 0 - InnerWidth <= mouseX
    /\ mouseX <= InnerWidth
    /\ lastOp.op \in {"mount", "attach"} => mouseX = 0
    /\ lastOp.op = "mousemove" => mouseX = 2 * lastOp.arg - InnerWidth

\* The pointer moved to the right edge of the viewport.
C17_Witness ==
    /\ lastOp.op = "mousemove"
    /\ lastOp.arg = InnerWidth
    /\ mouseX = InnerWidth

\* C18: a controller mounted again behaves as a first-ever controller
\* mounted at the same camera position and given the same pointer moves and
\* render ticks: same camera x in every state, same pointer coordinate, and
\* its base is the position it was mounted at.
C18_RemountIsFresh ==
    /\ camera.position = shadow.position
    /\ attached => (mouseX = shadow.mouseX /\ basePosition = attachPosition)

\* In the second mount the pointer has moved and the ticks have moved the camera.
C18_Witness ==
    /\ attached
    /\ lifetimes = 2
    /\ lastOp.op = "frame"
    /\ shadow.mouseX # 0
    /\ camera.position # attachPosition
    /\ attachPosition # CameraStart

\* C19: a wheel event with deltaY >= 0, and any wheel event while no id is
\* selected, leaves the machine, the camera and the tweens unchanged and
\* does not suppress the default scrolling.
C19_WheelOnlyUpWhileSelected ==
    [][(lastOp'.op = "wheel" /\ (lastOp'.arg # "up" \/ selectedFrameId = Null))
        => /\ UNCHANGED <<framesVars, camera, gsapVars, clearCalls, zoomOutClock>>
           /\ ~defaultPrevented']_vars

\* A downward wheel event arrived while zoomed in.
C19_Witness ==
    /\ lastOp.op = "wheel"
    /\ lastOp.arg = "down"
    /\ ZoomIn("f1")
    /\ ~defaultPrevented

\* An upward wheel event arrived while nothing was selected.
C19_WitnessIdle ==
    /\ lastOp.op = "wheel"
    /\ lastOp.arg = "up"
    /\ Idle
    /\ ~defaultPrevented

\* C20: subscriptions are independent.  After every tick each
\* subscription's accumulated time, last fire time, and whether and with
\* what delta it fired are what they would be were it the only
\* subscription, whatever the other one's rate is and whether the other one
\* fired, did not fire or was switched off.
C20_SubscriptionsIndependent ==
    \A s \in Subs :
        /\ frameRef[s] = solo[s].frameRef
        /\ lastTimeRef[s] = solo[s].lastTimeRef
        /\ tickDelta > 0 => (firedNow[s] = solo[s].fired
                             /\ passedDelta[s] = solo[s].delta)

\* In one tick a subscription fired while the other one was switched off
\* with time accumulated.
C20_Witness ==
    \E s, t \in Subs :
        /\ s # t
        /\ tickDelta > 0
        /\ firedNow[s]
        /\ fires[s] >= 2
        /\ ~enabled[t]
        /\ frameRef[t] > 0
        /\ fps[s] # fps[t]

-----------------------------------------------------------------------------
(* C21: in every render tick in which the panel's callback reads the particle
   position buffer, the particle advance of that same tick has fired before
   it and has run to completion: what the panel reads is the buffer with
   every particle advanced for this tick. *)
C21_ConsumerReadsAdvancedBuffer ==
    [][firedNow'["panel"] =>
          /\ firedNow'["particles"]
          /\ panelRead' =
                 updateParticles(positions, velocities, count, elapsedTime').positions
      ]_vars

\* The panel has read a buffer that the advance of the same tick had moved.
C21_Witness ==
    /\ count = ParticleCount
    /\ firedNow["panel"]
    /\ firedNow["particles"]
    /\ fires["panel"] >= 2
    /\ panelRead = positions

-----------------------------------------------------------------------------
(* C22: the panel's per-tick copy of the positions into the renderer leaves
   every value of the simulator's position and velocity buffers unchanged:
   after a render tick the buffers are what advance made of them in a tick
   where advance fired, and what they were before in any other tick. *)
C22_ConsumerLeavesBuffers ==
    [][tickDelta' > 0 =>
          LET a == updateParticles(positions, velocities, count, elapsedTime')
          IN  IF firedNow'["particles"]
              THEN positions' = a.positions /\ velocities' = a.velocities
              ELSE positions' = positions /\ velocities' = velocities
      ]_vars

\* The panel has copied the positions in a tick after particles have moved.
C22_Witness ==
    /\ count = ParticleCount
    /\ firedNow["panel"]
    /\ fires["panel"] >= 2
    /\ panelRead # <<>>
    /\ \E j \in DOMAIN positions : positions[j] # 0

-----------------------------------------------------------------------------
(* C23: a zoom-out completion runs only while the machine is ZoomingOut for
   the transition that scheduled it: whenever a completion fires, the machine
   is ZoomingOut with its selection still set, it is the first completion
   since that transition was triggered, it fires no sooner than the tween and
   the delay after that trigger, and nothing else is left pending; and while
   the machine is Idle or in ZoomIn, no tween and no delayed call is pending. *)
C23_CompletionOnlyForOwnTransition ==
    [][/\ clearCalls' > clearCalls =>
            /\ ZoomingOut
            /\ selectedFrameId # Null
            /\ clearCalls' = 1
            /\ zoomOutClock' >= TweenDuration + DelayDuration
            /\ tweens' = <<>> /\ delayedCalls' = <<>>
       /\ ~ZoomingOut' => tweens' = <<>> /\ delayedCalls' = <<>>
      ]_vars

\* A completion has just fired and has left the machine Idle, the field of
\* view still easing back.
C23_Witness ==
    /\ Idle
    /\ clearCalls = 1
    /\ lastOp.op = "frame"
    /\ zoomOutClock >= TweenDuration + DelayDuration
    /\ camera.fov > InitialFov

-----------------------------------------------------------------------------
(* C24: the ZoomingOut -> Idle transition never happens early: from the
   moment triggerZoomOut enters ZoomingOut until the tween's 1.2 units and a
   further 0.5 units have elapsed, the machine stays ZoomingOut, the selected
   id stays set and clearActiveClasses has not been called. *)
C24_ZoomOutNeverEarly ==
    (zoomOutClock # NoClock /\ zoomOutClock < TweenDuration + DelayDuration) =>
        /\ ZoomingOut
        /\ selectedFrameId # Null
        /\ clearCalls = 0

\* The tween has ended, the delayed call is about to fire.
C24_Witness ==
    /\ zoomOutClock = TweenDuration + DelayDuration - 1
    /\ tweens = <<>>
    /\ delayedCalls # <<>>
    /\ ZoomingOut
    /\ selectedFrameId \in FrameIds
    /\ clearCalls = 0

-----------------------------------------------------------------------------
(* C25: the field-of-view target follows the state: it is 70 whenever the
   machine is in ZoomIn with a resolved target, it is the initial
   field-of-view whenever the machine is ZoomingOut or Idle, and it never
   takes any third value. *)
C25_FovTargetFollowsState ==
    /\ targetFov \in {InitialFov, ZoomFov}
    /\ (\E f \in FrameIds : ZoomIn(f)) => targetFov = ZoomFov
    /\ (ZoomingOut \/ Idle) => targetFov = InitialFov

\* Zoomed in again after a completed zoom-out: the target is back at 70.
C25_Witness ==
    /\ ZoomIn("f1")
    /\ targetFov = ZoomFov
    /\ clearCalls = 1
    /\ camera.fov > InitialFov

-----------------------------------------------------------------------------
(* C26: in a render tick where |camera fov - fov target| is at most the
   epsilon, the Frames useFrame leaves the camera fov unchanged and does not
   recompute the projection matrix (it does not enter the fov branch); it
   damps the fov exactly in the ticks where the difference exceeds the
   epsilon. *)
C26_FovDampedOnlyBeyondEpsilon ==
    [][(lastOp'.op = "frame" /\ mounted) =>
          IF Abs(camera.fov - targetFov) <= FovEps
          THEN camera'.fov = camera.fov /\ "fov" \notin framesWrote'
          ELSE camera'.fov # camera.fov /\ "fov" \in framesWrote'
      ]_vars

\* A tick has found the fov off its target by exactly the epsilon and has
\* left it there.
C26_Witness ==
    /\ lastOp.op = "frame"
    /\ mounted
    /\ Abs(camera.fov - targetFov) = FovEps
    /\ "fov" \notin framesWrote

-----------------------------------------------------------------------------
\* Who wrote camera.position in the last frame: the parallax controller
\* lerps it in every tick it runs, the tween in every tick it renders, the
\* Frames useFrame when it damps towards finalZoomInPosition.
PositionWriters ==
    (writers \cap {"parallax", "gsap"})
    \cup (IF "position" \in framesWrote THEN {"frames"} ELSE {})

(* C27: while the machine is ZoomingOut, the Frames useFrame writes only the
   camera orientation (and fov), its zoom-in position damping does not run,
   and the camera position is written by the zoom-out tween alone. *)
C27_ZoomingOutPositionByTweenAlone ==
    (lastOp.op = "frame" /\ mounted /\ framesSaw.isAnimatingOut) =>
        /\ framesWrote \subseteq {"quaternion", "fov"}
        /\ PositionWriters \subseteq {"gsap"}

-----------------------------------------------------------------------------
\* 0.9 * maxRadius
PullRadius == (MaxRadius * 9) \div 10

\* Is (x2, y2) at distance PullRadius from the axis, at the angle of (x, y)?
\* Positions are whole units: each relocated coordinate is rounded, so the
\* distance is met within two units and the direction within two units
\* across.
PulledAlongAngle(x2, y2, x, y) ==
    /\ x2 * x2 + y2 * y2 <= (PullRadius + 2) * (PullRadius + 2)
    /\ x2 * x2 + y2 * y2 >= (PullRadius - 2) * (PullRadius - 2)
    /\ x2 * x + y2 * y > 0
    /\ Abs(x2 * y - y2 * x) <= 2 * (Abs(x) + Abs(y))

(* C28: in advance, a particle whose planar distance after the move, forcing
   and damping steps exceeds maxRadius is relocated to distance 0.9 maxRadius
   along the same angle and has vx and vy multiplied by -0.3; a particle
   whose distance does not exceed maxRadius keeps the x, y, vx and vy those
   steps produced. *)
C28_RadialBound ==
    [][firedNow'["particles"] =>
          \A k \in 0..(count - 1) :
              LET m == movedParticle(positions, velocities, k, elapsedTime')
                  i == 3 * k
              IN  IF m.x * m.x + m.y * m.y > MaxRadius * MaxRadius
                  THEN /\ PulledAlongAngle(positions'[i + 1], positions'[i + 2], m.x, m.y)
                       /\ velocities'[i + 1] = Quot(0 - 3 * m.vx, 10)
                       /\ velocities'[i + 2] = Quot(0 - 3 * m.vy, 10)
                  ELSE /\ positions'[i + 1] = m.x
                       /\ positions'[i + 2] = m.y
                       /\ velocities'[i + 1] = m.vx
                       /\ velocities'[i + 2] = m.vy
      ]_vars

\* The first advance has pulled a particle that was created outside the
\* circle back to 0.9 maxRadius and has reversed its velocity, while the
\* other particle was inside and has moved on.
C28_Witness ==
    /\ count = ParticleCount
    /\ fires["particles"] = 1
    /\ firedNow["particles"]
    /\ positions[1] * positions[1] + positions[2] * positions[2]
           >= (PullRadius - 2) * (PullRadius - 2)
    /\ velocities[1] = 1
    /\ positions[4] * positions[4] + positions[5] * positions[5] < 1000000

-----------------------------------------------------------------------------
(* C29: in advance, a particle whose |z| after the move, forcing and damping
   steps exceeds boundsZ has z set to boundsZ with the sign of z and vz
   multiplied by -0.3; otherwise z and vz are left as those steps produced
   them. *)
C29_DepthBound ==
    [][firedNow'["particles"] =>
          \A k \in 0..(count - 1) :
              LET m == movedParticle(positions, velocities, k, elapsedTime')
                  i == 3 * k
              IN  IF m.z > BoundsZ
                  THEN /\ positions'[i + 3] = BoundsZ
                       /\ velocities'[i + 3] = Quot(0 - 3 * m.vz, 10)
                  ELSE IF m.z < 0 - BoundsZ
                  THEN /\ positions'[i + 3] = 0 - BoundsZ
                       /\ velocities'[i + 3] = Quot(0 - 3 * m.vz, 10)
                  ELSE /\ positions'[i + 3] = m.z
                       /\ velocities'[i + 3] = m.vz
      ]_vars

\* The first advance has moved a particle created at z = -boundsZ with a
\* negative vz (every draw 0) below the bound and has set it back onto it.
C29_Witness ==
    /\ count = ParticleCount
    /\ fires["particles"] = 1
    /\ firedNow["particles"]
    /\ positions[3] = 0 - BoundsZ
    /\ velocities[1] = 1
    /\ velocities[2] = 1

-----------------------------------------------------------------------------
(* C30: whatever a particle's position and velocity were before, once an
   advance has completed the particle is within the circle of maxRadius and
   within boundsZ of the plane: in every state reached after at least one
   advance every particle is in bounds, also one that was created outside. *)
C30_InBoundsAfterAdvance ==
    fires["particles"] >= 1 =>
        \A k \in 0..(count - 1) :
            LET x == positions[3 * k + 1]
                y == positions[3 * k + 2]
                z == positions[3 * k + 3]
            IN  /\ x * x + y * y <= MaxRadius * MaxRadius
                /\ z <= BoundsZ
                /\ z >= 0 - BoundsZ

\* After the first advance: both particles were created outside the circle
\* and now sit at 0.9 maxRadius, the first one on the lower z bound.
C30_Witness ==
    /\ count = ParticleCount
    /\ fires["particles"] = 1
    /\ positions[1] * positions[1] + positions[2] * positions[2]
           >= (PullRadius - 2) * (PullRadius - 2)
    /\ positions[4] * positions[4] + positions[5] * positions[5]
           >= (PullRadius - 2) * (PullRadius - 2)
    /\ positions[3] = 0 - BoundsZ
    /\ \A k \in 0..(count - 1) : particleInBounds(k)

-----------------------------------------------------------------------------
(* C31: the absolute value of each velocity component of each particle never
   increases across an advance: the component is multiplied by the dampening
   factor and, when its axis bounces, additionally by 0.3 in magnitude with
   its sign reversed; the floating motion is added to positions only. *)
C31_VelocityNeverGrows ==
    [][firedNow'["particles"] =>
          \A k \in 0..(count - 1) :
              LET m == movedParticle(positions, velocities, k, elapsedTime')
                  i == 3 * k
                  radial == m.x * m.x + m.y * m.y > MaxRadius * MaxRadius
                  depth == m.z > BoundsZ \/ m.z < 0 - BoundsZ
                  damped(v) == Quot(v * DampeningPerMille, 1000)
                  after(v, bounced) ==
                      IF bounced THEN Quot(0 - 3 * damped(v), 10) ELSE damped(v)
              IN  /\ \A a \in 1..3 : Abs(velocities'[i + a]) <= Abs(velocities[i + a])
                  /\ velocities'[i + 1] = after(velocities[i + 1], radial)
                  /\ velocities'[i + 2] = after(velocities[i + 2], radial)
                  /\ velocities'[i + 3] = after(velocities[i + 3], depth)
      ]_vars

\* The first advance has bounced a particle that was created outside the
\* circle with velocity (-0.0005, 0.0004): its vx has come back reversed and
\* smaller, its vy has died out.
C31_Witness ==
    /\ count = ParticleCount
    /\ fires["particles"] = 1
    /\ firedNow["particles"]
    /\ velocities[1] = 1
    /\ velocities[2] = 0
    /\ positions[1] > 0

-----------------------------------------------------------------------------
(* C32: for a subscription with a positive rate, after every render tick the
   accumulated time is at least 0 and less than the interval 1/rate: time
   that has reached the interval is never carried into the next tick, and
   at a fire the accumulator is back at 0, whatever it exceeded the interval
   by. *)
C32_AccumulatorBelowInterval ==
    \A s \in Subs :
        fps[s] > 0 =>
            /\ frameRef[s] >= 0
            /\ frameRef[s] < targetInterval(fps[s])
            /\ firedNow[s] => frameRef[s] = 0

\* A 60 fps subscription has fired in a tick that took it past its interval
\* of 4 by more than a whole tick's worth, and has kept none of it.
C32_Witness ==
    /\ fps["panel"] = 60
    /\ firedNow["panel"]
    /\ tickDelta = MaxRenderDelta
    /\ passedDelta["panel"] = MaxRenderDelta
    /\ fires["panel"] >= 2
    /\ frameRef["panel"] = 0

-----------------------------------------------------------------------------
(* C33: for one subscription, lastTimeRef never decreases, and the deltas
   handed to the callback telescope: after any sequence of ticks their sum
   equals the elapsedTime of the most recent fire (the first fire receives
   the whole time since the clock started). *)
C33_DeltasTelescope ==
    [][\A s \in Subs :
          /\ lastTimeRef'[s] >= lastTimeRef[s]
          /\ deltaSum'[s] = lastTimeRef'[s]
          /\ firedNow'[s] => lastTimeRef'[s] = elapsedTime'
      ]_vars

\* A subscription has fired three times under changing frame times; the
\* last fire was in an earlier tick than the current one.
C33_Witness ==
    /\ fires["panel"] >= 3
    /\ ~firedNow["panel"]
    /\ deltaSum["panel"] = lastTimeRef["panel"]
    /\ lastTimeRef["panel"] < elapsedTime
    /\ passedDelta["panel"] = 0
    /\ tickDelta = 1

-----------------------------------------------------------------------------
(* C34: while a subscription is disabled, a render tick does not invoke its
   callback and leaves its frameRef and lastTimeRef unchanged; the first
   fire after it is enabled again passes a delta that includes the whole
   disabled period: the time it spent disabled since its last fire, the
   time it had accumulated while enabled, and the tick of the fire. *)
C34_DisabledTicksAreSkipped ==
    [][tickDelta' > 0 =>
          \A s \in Subs :
              /\ ~enabled[s] =>
                     /\ ~firedNow'[s]
                     /\ frameRef'[s] = frameRef[s]
                     /\ lastTimeRef'[s] = lastTimeRef[s]
              /\ firedNow'[s] =>
                     passedDelta'[s] = offTime[s] + frameRef[s] + tickDelta'
      ]_vars

\* A subscription that had spent time disabled has fired again, with a delta
\* longer than any it could have accumulated while enabled.
C34_Witness ==
    /\ firedNow["panel"]
    /\ enabled["panel"]
    /\ passedDelta["panel"] >= targetInterval(fps["panel"]) + MaxRenderDelta
    /\ offTime["panel"] = 0

-----------------------------------------------------------------------------
(* C35: with the parallax controller as the only writer of the camera
   position, the camera's x stays within MAX_HORIZONTAL_OFFSET of
   basePosition.x in every reachable state, its y and z stay equal to
   basePosition's, and on every render tick of the controller the distance
   from x to targetX = basePosition.x + mouseX * MAX_HORIZONTAL_OFFSET
   becomes 19/20 of what it was (in whole units of the grid). *)
C35_ParallaxStaysNearBase ==
    [][/\ Abs(camera'.position - basePosition') <= MaxHorizontalOffset
       /\ camera'.positionY = basePositionY'
       /\ (lastOp'.op = "frame" /\ attached) =>
              LET targetX == ParallaxTargetX(basePosition, mouseX)
              IN  Abs(camera'.position - targetX)
                      = ((LerpDivisor - 1) * Abs(camera.position - targetX))
                            \div LerpDivisor
      ]_vars

\* A controller mounted for the second time, away from where the camera
\* started, has followed the pointer to the full offset from its own base.
C35_Witness ==
    /\ lastOp.op = "frame"
    /\ attached
    /\ lifetimes = MaxLifetimes
    /\ basePosition # CameraStart
    /\ mouseX # 0
    /\ Abs(camera.position - basePosition) = MaxHorizontalOffset
    /\ camera.positionY = basePositionY

-----------------------------------------------------------------------------
(* C36: whenever a registry marker is active, it is the marker of the frame
   whose id is currently selected in the camera state machine; in particular
   a click on a frame that the machine ignores because it is ZoomingOut
   does not move the active marker to that frame. *)
C36_MarkerFollowsSelection ==
    [][/\ active' # {} =>
            /\ selectedFrameId' # Null
            /\ active' = {findElementBySlug(SlugOf(selectedFrameId'))}
       /\ (lastOp'.op = "click" /\ ZoomingOut /\ lastOp'.arg # clicked) =>
            active' = active
      ]_vars

\* C37: starting from no active markers, after any sequence of
\* setActiveBySlug and clearActiveClasses calls at most one element is marked
\* active: a setActiveBySlug that finds its element leaves exactly that element
\* marked, and clearActiveClasses leaves none.
C37_AtMostOneActive ==
    [][/\ Cardinality(active) <= 1
       /\ Cardinality(active') <= 1
       /\ (lastOp'.op = "setActiveBySlug" /\ findElementBySlug(lastOp'.arg) # 0) =>
            active' = {findElementBySlug(lastOp'.arg)}
       /\ lastOp'.op = "clearActiveClasses" => active' = {}
      ]_vars

\* setActiveBySlug("other") found the second element while the first was
\* marked, and the second is now the only one marked
C37_Witness ==
    /\ lastOp.op = "setActiveBySlug"
    /\ lastOp.arg = "other"
    /\ linkResult = 1
    /\ active = {2}
    /\ selectedFrameId = "f1"

\* C38: the zoomed flag reported through setIsZoomed is consistent with the
\* machine: it is false whenever the machine is Idle, it becomes true only in
\* a click that selects a frame whose object resolves, and it becomes false
\* only in a frame in which the zoom-out completion runs and the selected id
\* becomes null.
C38_ZoomedFlagFollowsMachine ==
    [][/\ Idle => ~isZoomed
       /\ Idle' => ~isZoomed'
       /\ (~isZoomed /\ isZoomed') =>
            /\ lastOp'.op = "click"
            /\ selectedFrameId' = lastOp'.arg
            /\ selectedFrameId' # selectedFrameId
            /\ GetObjectByName(selectedFrameId') # NoObject
       /\ (isZoomed /\ ~isZoomed') =>
            /\ lastOp'.op = "frame"
            /\ clearCalls' = clearCalls + 1
            /\ selectedFrameId # Null
            /\ selectedFrameId' = Null
      ]_vars

\* the machine is back in Idle after a zoom-out that started with the flag
\* true: the completion has run and the flag is false again
C38_Witness ==
    /\ Idle
    /\ ~isZoomed
    /\ clearCalls = 1
    /\ lastOp.op = "frame"
    /\ zoomOutClock >= TweenDuration + DelayDuration

====
